---- MODULE Spec2Model ----
(***************************************************************************)
(* FFmpegGTK: the conversion lifecycle of app/converter.py.                *)
(*                                                                         *)
(* Two kinds of thread act on the Application object:                      *)
(*   - the GLib event-loop thread, which runs the signal handlers          *)
(*     (on_execute, on_cancel, the row editing handlers), the idle         *)
(*     callbacks queued with GLib.idle_add and the stderr watches added    *)
(*     with GLib.io_add_watch;                                             *)
(*   - one worker thread per call of convert()/crop() (@run_task).         *)
(* An action of the model is one handler of the event loop, or one step of *)
(* a worker between two accesses to state shared with the other threads.   *)
(*                                                                         *)
(* Not modelled: the text buffer of the details view (append_output and    *)
(* the set_text("") of on_execute), the icons, file names and duration     *)
(* strings of the rows, the crop scales and images, window geometry.       *)
(* Sequences are 1-based: queue index i of the model is index i-1 of the   *)
(* Python list.                                                            *)
(*                                                                         *)
(* Besides the program's state the model records what happened (history):  *)
(* the fields of threads and procs marked "history" below, the variable    *)
(* observed, and the field edited of user.  No guard and no field of the   *)
(* program's state depends on them.                                        *)
(***************************************************************************)
EXTENDS Integers, Sequences, FiniteSets, TLC

(***************************************************************************)
(* Bounds of the model.                                                    *)
(***************************************************************************)
\* What the environment does is bounded by a budget that Init draws from
\* Scenarios: files appended, activations of the execute control, cancel
\* dialogs answered OK, row edits (check box, space key, select all,
\* unselect), tool switches, lines the ffmpeg processes write to stderr (all
\* together), and whether the user activates the execute control while a
\* worker thread of an earlier activation has not returned yet (overlap),
\* processes that end with an exit status other than 0, uses of the Delete
\* key and of the remove item.
MaxFiles == 2
MaxRuns == 2
MaxCancels == 1
MaxEdits == 1
MaxSwitches == 1
MaxLines == 3
\* rows of the list in a call of the command builder on its own
MaxRows == 2
\* processes that end with an exit status other than 0
MaxFailures == 2
\* uses of the Delete key and of the remove item
MaxRemovals == 1
\* callbacks that may be pending when a handler of the preset editor runs
MaxPending == 1

Budget(f, x, c, e, s, l, o) ==
    [files |-> f, executes |-> x, cancels |-> c, edits |-> e, switches |-> s,
     lines |-> l, overlap |-> o, edited |-> FALSE, failures |-> 0, removals |-> 0]

Scenarios ==
    { \* runs one after the other, over the whole list
      Budget(MaxFiles, MaxRuns, MaxCancels, 0, 0, 0, FALSE),
      \* runs that overlap, over a list of one file
      Budget(1, MaxRuns, MaxCancels, 0, 0, 0, TRUE),
      \* one run with stderr output
      Budget(MaxFiles, 1, 0, 0, 0, MaxLines, TRUE),
      \* both tools, with a row edit and a line of output
      Budget(1, 1, MaxCancels, MaxEdits, MaxSwitches, 1, FALSE),
      \* one run whose processes may fail
      [Budget(MaxFiles, 1, 0, 0, 0, 0, FALSE) EXCEPT !.failures = MaxFailures],
      \* one run during which rows may be removed
      [Budget(MaxFiles, 1, 0, 0, 0, 0, FALSE) EXCEPT !.removals = MaxRemovals] }

(***************************************************************************)
(* Values.                                                                 *)
(***************************************************************************)
\* progress column of a row appended with None (never written)
Unset == -1
\* self._current_itr = None / an iterator that denotes no row
NoItr == 0
\* self._current_process = None
NoProc == 0

\* A stderr line as DURATION_PATTERN sees it: g1 is TRUE when group 1
\* (".*Duration:") took part in the match, g2 and g3 are the hour and minute
\* groups, g4 is group 4 ("SS.ff") in hundredths of a second.  NoMatch is a
\* line the pattern does not match.
NoMatch == [m |-> FALSE, g1 |-> FALSE, g2 |-> 0, g3 |-> 0, g4 |-> 0]

Line(g1, g2, g3, g4) == [m |-> TRUE, g1 |-> g1, g2 |-> g2, g3 |-> g3, g4 |-> g4]

\* The lines a process of the model can write:
\*   "Press [q] to stop"            (no match)
\*   "  Duration: 00:01:40.00, ..." (100 s)
\*   "  Duration: 00:01:00.00, ..." (60 s)
\*   "... time=00:00:50.00 ..."     (50 s)
\*   "... time=00:00:10.20 ..."     (10.2 s)
\*   "... time=00:02:00.00 ..."     (120 s)
StderrLines ==
    { NoMatch,
      Line(TRUE, 0, 1, 4000),
      Line(TRUE, 0, 1, 0),
      Line(FALSE, 0, 0, 5000),
      Line(FALSE, 0, 0, 1020),
      Line(FALSE, 0, 2, 0) }

\* the time a matching line gives, in hundredths of a second (a number of
\* the mathematics, not a value of the program)
Hundredths(line) == (line.g2 * 3600 + line.g3 * 60) * 100 + line.g4

(***************************************************************************)
(* Python floats (IEEE 754 binary64, round to nearest, ties to even).      *)
(* A natural number is a sequence of limbs, least significant first, in    *)
(* base LimbBase; a positive float is [m, e] with m a natural of exactly   *)
(* MantissaBits bits and value m * 2^e; 0.0 is FloatZero.                  *)
(***************************************************************************)
LimbBits == 12
LimbBase == 4096
MantissaBits == 53

RECURSIVE Pow2(_)
Pow2(k) == IF k = 0 THEN 1 ELSE 2 * Pow2(k - 1)

Limb(n, i) == IF i \in 1..Len(n) THEN n[i] ELSE 0

Trim(n) ==
    LET nz == { i \in 1..Len(n) : n[i] # 0 }
    IN IF nz = {} THEN << >>
       ELSE SubSeq(n, 1, CHOOSE i \in nz : \A j \in nz : j <= i)

\* a natural below LimbBase^3
FromNat(x) ==
    Trim(<< x % LimbBase, (x \div LimbBase) % LimbBase, x \div (LimbBase * LimbBase) >>)

RECURSIVE ToNat(_)
ToNat(n) == IF n = << >> THEN 0 ELSE Head(n) + LimbBase * ToNat(Tail(n))

BitLen(n) ==
    IF n = << >> THEN 0
    ELSE (Len(n) - 1) * LimbBits
         + CHOOSE k \in 1..LimbBits : Pow2(k - 1) <= n[Len(n)] /\ n[Len(n)] < Pow2(k)

\* bit k of n, bit 0 the least significant
BitAt(n, k) == (Limb(n, k \div LimbBits + 1) \div Pow2(k % LimbBits)) % 2

\* some bit of n below bit k is 1
LowBits(n, k) ==
    \/ \E i \in 1..(k \div LimbBits) : Limb(n, i) # 0
    \/ Limb(n, k \div LimbBits + 1) % Pow2(k % LimbBits) # 0

ShiftLeft(n, k) ==
    LET a == k \div LimbBits
        b == k % LimbBits
    IN Trim([ i \in 1..(Len(n) + a + 1) |->
                IF i <= a THEN 0
                ELSE ((Limb(n, i - a) * Pow2(b)) % LimbBase)
                     + (Limb(n, i - a - 1) \div Pow2(LimbBits - b)) ])

ShiftRight(n, k) ==
    LET a == k \div LimbBits
        b == k % LimbBits
    IN Trim([ i \in 1..(IF Len(n) > a THEN Len(n) - a ELSE 0) |->
                (Limb(n, i + a) \div Pow2(b))
                + ((Limb(n, i + a + 1) % Pow2(b)) * Pow2(LimbBits - b)) ])

\* a + b
Add(a, b) ==
    LET L == (IF Len(a) > Len(b) THEN Len(a) ELSE Len(b)) + 1
        carry[i \in 0..L] ==
            IF i = 0 THEN 0 ELSE (Limb(a, i) + Limb(b, i) + carry[i - 1]) \div LimbBase
    IN Trim([ i \in 1..L |-> (Limb(a, i) + Limb(b, i) + carry[i - 1]) % LimbBase ])

\* a - b for a >= b
Sub(a, b) ==
    LET borrow[i \in 0..Len(a)] ==
            IF i = 0 THEN 0
            ELSE IF Limb(a, i) - Limb(b, i) - borrow[i - 1] < 0 THEN 1 ELSE 0
    IN Trim([ i \in 1..Len(a) |->
                (Limb(a, i) - Limb(b, i) - borrow[i - 1] + LimbBase) % LimbBase ])

\* a >= b
Geq(a, b) ==
    LET d == { i \in 1..(IF Len(a) > Len(b) THEN Len(a) ELSE Len(b)) : Limb(a, i) # Limb(b, i) }
    IN d = {} \/ LET i == CHOOSE i \in d : \A j \in d : j <= i IN Limb(a, i) > Limb(b, i)

\* a * s for a natural s below LimbBase
MulSmall(a, s) ==
    LET L == Len(a) + 1
        carry[i \in 0..L] ==
            IF i = 0 THEN 0 ELSE (Limb(a, i) * s + carry[i - 1]) \div LimbBase
    IN Trim([ i \in 1..L |-> (Limb(a, i) * s + carry[i - 1]) % LimbBase ])

\* Long division, a limb of quotient at a step (k steps): the quotient and
\* the remainder of r * LimbBase^k by den, for r < den, added to
\* q * LimbBase^k; den has its top limb >= LimbBase / 2, so that the
\* quotient of the two top limbs of the remainder by the top limb of den,
\* qh, is the limb of the quotient or exceeds it by at most 2.
RECURSIVE DivLimbs(_, _, _, _)
DivLimbs(q, r, den, k) ==
    IF k = 0 THEN [q |-> q, r |-> r]
    ELSE LET r1 == IF r = << >> THEN r ELSE << 0 >> \o r
             n == Len(den)
             est == (Limb(r1, n + 1) * LimbBase + Limb(r1, n)) \div den[n]
             qh == IF est < LimbBase THEN est ELSE LimbBase - 1
             d == CHOOSE c \in { qh - 2, qh - 1, qh } \cap (0..(LimbBase - 1)) :
                     /\ Geq(r1, MulSmall(den, c))
                     /\ ~Geq(r1, MulSmall(den, c + 1))
         IN DivLimbs(IF q = << >> /\ d = 0 THEN q ELSE << d >> \o q,
                     Sub(r1, MulSmall(den, d)), den, k - 1)

FloatZero == [m |-> << >>, e |-> 0]

\* the float nearest to n * 2^e (n a natural; sticky: plus a fraction of the
\* last bit of n, which n then has enough bits to make irrelevant but for
\* the tie), ties to even
Round(n, sticky, e) ==
    IF n = << >> THEN FloatZero
    ELSE IF BitLen(n) <= MantissaBits
    THEN [m |-> ShiftLeft(n, MantissaBits - BitLen(n)), e |-> e - (MantissaBits - BitLen(n))]
    ELSE LET k == BitLen(n) - MantissaBits
             top == ShiftRight(n, k)
             up == /\ BitAt(n, k - 1) = 1
                   /\ (sticky \/ LowBits(n, k - 1) \/ BitAt(top, 0) = 1)
             m == IF up THEN Add(top, << 1 >>) ELSE top
         IN IF BitLen(m) > MantissaBits
            THEN [m |-> ShiftRight(m, 1), e |-> e + k + 1]
            ELSE [m |-> m, e |-> e + k]

\* float(i) for an int 0 <= i < 2^31
float_of_int(i) == Round(FromNat(i), FALSE, 0)

\* float("SS.ff"), for the digits SSff read as the number g4 of hundredths:
\* the float nearest to g4 / 100, from six limbs of its fraction
float_of_str(g4) ==
    LET rem[j \in 0..6] == IF j = 0 THEN g4 % 100 ELSE (rem[j - 1] * LimbBase) % 100
    IN Round(Trim([ i \in 1..7 |-> IF i = 7 THEN g4 \div 100
                                   ELSE (rem[6 - i] * LimbBase) \div 100 ]),
             rem[6] # 0, 0 - 6 * LimbBits)

\* x + y
float_add(x, y) ==
    IF x.m = << >> THEN y
    ELSE IF y.m = << >> THEN x
    ELSE LET e == IF x.e < y.e THEN x.e ELSE y.e
         IN Round(Add(ShiftLeft(x.m, x.e - e), ShiftLeft(y.m, y.e - e)), FALSE, e)

\* x * i for an int 0 < i < LimbBase
float_mul_int(x, i) == Round(MulSmall(x.m, i), FALSE, x.e)

\* x / y for y > 0: both mantissas are shifted to MantissaBits + 7 bits, a
\* whole number of limbs, and five limbs of the fraction of the quotient
\* are taken
float_div(x, y) ==
    IF x.m = << >> THEN FloatZero
    ELSE LET num == ShiftLeft(x.m, 7)
             den == ShiftLeft(y.m, 7)
             q0 == IF Geq(num, den) THEN << 1 >> ELSE << >>
             r0 == IF Geq(num, den) THEN Sub(num, den) ELSE num
             d == DivLimbs(q0, r0, den, 5)
         IN Round(d.q, d.r # << >>, x.e - y.e - 5 * LimbBits)

\* int(x) for x >= 0
int_of_float(x) ==
    IF x.m = << >> \/ MantissaBits + x.e <= 0 THEN 0
    ELSE ToNat(ShiftRight(x.m, 0 - x.e))

(***************************************************************************)
(* The arithmetic of write_to_buffer.                                      *)
(***************************************************************************)
\* sum((int(g2) * 3600, int(g3) * 60, float(g4))): the ints are added as
\* ints, the float is added to their sum
sum(line) == float_add(float_of_int(line.g2 * 3600 + line.g3 * 60), float_of_str(line.g4))

\* sum() of every line of the alphabet that matches, computed once
Sums == { [line |-> l, d_time |-> sum(l)] : l \in StderrLines \ { NoMatch } }

d_time(line) == (CHOOSE t \in Sums : t.line = line).d_time

\* int(d_time * 100 / self._duration) for every line and every positive
\* duration of the alphabet, computed once
Quotients ==
    { [line |-> t.line, dur |-> d.d_time,
       done |-> int_of_float(float_div(float_mul_int(t.d_time, 100), d.d_time))] :
         t \in Sums, d \in { d \in Sums : d.d_time # FloatZero } }

\* int(done), done = d_time * 100 / self._duration
done(line, dur) == (CHOOSE t \in Quotients : t.line = line /\ t.dur = dur).done

(***************************************************************************)
(* Strings and paths.  A string is the sequence of its characters.         *)
(***************************************************************************)
\* os.sep
sep == << "/" >>

\* str.rfind(c) + 1: the position of the last c of s, 0 when there is none
rfind(s, c) ==
    IF \A i \in 1..Len(s) : s[i] # c THEN 0
    ELSE CHOOSE i \in 1..Len(s) : s[i] = c /\ \A j \in (i + 1)..Len(s) : s[j] # c

\* str.split(" "): the pieces between the spaces, empty pieces included
RECURSIVE split(_)
split(s) ==
    IF \A i \in 1..Len(s) : s[i] # " " THEN << s >>
    ELSE LET i == CHOOSE i \in 1..Len(s) : s[i] = " " /\ \A j \in 1..(i - 1) : s[j] # " "
         IN << SubSeq(s, 1, i - 1) >> \o split(SubSeq(s, i + 1, Len(s)))

\* Path(p).name, for the absolute path of a file as the chooser returns it
\* (no doubled or trailing separator)
name(p) == SubSeq(p, rfind(p, "/") + 1, Len(p))

\* str(Path(p).parent), for such a path
parent(p) ==
    IF rfind(p, "/") = 1 THEN sep ELSE SubSeq(p, 1, rfind(p, "/") - 1)

\* Path(p).stem: the name without its last suffix; a dot that starts or
\* ends the name starts no suffix
stem(p) ==
    LET n == name(p)
        i == rfind(n, ".")
    IN IF 1 < i /\ i < Len(n) THEN SubSeq(n, 1, i - 1) ELSE n

\* "CONVERTED!_", "ffmpeg", "-i", "-y", "-n"
CONVERTED == << "C", "O", "N", "V", "E", "R", "T", "E", "D", "!", "_" >>
ffmpeg == << "f", "f", "m", "p", "e", "g" >>
minus_i == << "-", "i" >>
minus_y == << "-", "y" >>
minus_n == << "-", "n" >>

\* the loop body of do_convert for one row, without the overwrite option
command_no_flag(in_file, prm, overwrite, base_path, use_source_folder) ==
    LET out_path == (IF use_source_folder THEN parent(in_file) ELSE base_path) \o sep
        out_file == out_path \o stem(in_file) \o << "." >> \o prm.extension
    IN << ffmpeg, minus_i, in_file >> \o split(prm.params)
       \o << IF in_file = out_file
             THEN out_path \o CONVERTED \o stem(in_file) \o << "." >> \o prm.extension
             ELSE out_file >>

\* the same loop body without the test in_file == out_file
command_no_rename(in_file, prm, overwrite, base_path, use_source_folder) ==
    LET out_path == (IF use_source_folder THEN parent(in_file) ELSE base_path) \o sep
        out_file == out_path \o stem(in_file) \o << "." >> \o prm.extension
    IN << ffmpeg, minus_i, in_file >> \o split(prm.params)
       \o << IF overwrite THEN minus_y ELSE minus_n, out_file >>

command(in_file, prm, overwrite, base_path, use_source_folder) ==
    LET out_path == (IF use_source_folder THEN parent(in_file) ELSE base_path) \o sep
        out_file == out_path \o stem(in_file) \o << "." >> \o prm.extension
    IN << ffmpeg, minus_i, in_file >> \o split(prm.params)
       \o << IF overwrite THEN minus_y ELSE minus_n,
             IF in_file = out_file
             THEN out_path \o CONVERTED \o stem(in_file) \o << "." >> \o prm.extension
             ELSE out_file >>

\* do_convert, l.379-395: the list of (command, index) it passes to convert
do_convert(files, prm, overwrite, base_path, use_source_folder) ==
    [ i \in 1..Len(files) |->
        [ command |-> command(files[i], prm, overwrite, base_path, use_source_folder),
          path |-> i - 1 ] ]

(***************************************************************************)
(* The preset catalog: a dict of categories, each a dict of profiles.      *)
(* A dict is the sequence of its entries in insertion order.               *)
(***************************************************************************)
\* k in d
contains(d, k) == \E i \in 1..Len(d) : d[i].key = k

\* d[k], for a key of d
getitem(d, k) == d[CHOOSE i \in 1..Len(d) : d[i].key = k].value

\* d[k] = v: the value of a key of d is replaced where it is, a new key goes
\* last
setitem(d, k, v) ==
    IF contains(d, k)
    THEN [ i \in 1..Len(d) |-> IF d[i].key = k THEN [key |-> k, value |-> v] ELSE d[i] ]
    ELSE Append(d, [key |-> k, value |-> v])

\* d.pop(k, default): d without k
pop(d, k) == SelectSeq(d, LAMBDA e : e.key # k)

\* d.keys(), in insertion order
keys(d) == [ i \in 1..Len(d) |-> d[i].key ]

\* the names that can be typed into the category entry, in str order
CategoryNames == << "A", "B" >>

\* sorted(d), for a dict of categories
sorted(d) == SelectSeq(CategoryNames, LAMBDA c : contains(d, c))

\* the texts that can be typed into the category entry
CategoryTexts == { CategoryNames[i] : i \in 1..Len(CategoryNames) }

\* the names and the parameters that can be typed into the profile entries
ProfileNames == { "P", "Q" }
ProfileParams == { "-a", "-b" }

\* {"params": ..., "extension": ...}
Profile(params) == [params |-> params, extension |-> "x"]

\* the catalog in the presets file: {"A": {"P": {"params": "-a", ...}}}
DefaultPresets ==
    << [key |-> "A", value |-> << [key |-> "P", value |-> Profile("-a")] >>] >>

\* None as the active text of a combo box (the handlers test it with `not`)
NoText == ""

VARIABLES
    files_model,             \* self._files_model: the rows, in queue order
    next_id,                 \* rows appended so far (row identities)
    in_progress,             \* self._in_progress
    current_process,         \* self._current_process
    current_itr,             \* self._current_itr
    duration,                \* self._duration (a float; 0 at first)
    current_crop_file,       \* self._current_crop_file is set
    tool,                    \* visible child of the stack: "convert" / "crop"
    convert_button,          \* [visible, sensitive] of self._convert_button
    info_bar,                \* [visible, text] of self._info_bar and its label
    idle,                    \* callbacks queued with GLib.idle_add, in order
    threads,                 \* the worker threads started so far
    procs,                   \* the ffmpeg processes spawned so far
    user,                    \* what the environment may still do (budget)
    observed,                \* history of write_to_buffer and of the jobs
    built,                   \* a call of do_convert: its inputs and its commands
    presets,                 \* self._presets: the preset catalog
    widgets                  \* the category and profile boxes and their editor

vars == << files_model, next_id, in_progress, current_process, current_itr,
           duration, current_crop_file, tool, convert_button, info_bar,
           idle, threads, procs, user, observed, built, presets, widgets >>

(***************************************************************************)
(* The list store.                                                         *)
(***************************************************************************)
\* no call of do_convert is on record
NoBuild == [ files |-> << >>, prm |-> [params |-> << >>, extension |-> << >>],
             overwrite |-> FALSE, base_path |-> << >>, use_source_folder |-> FALSE,
             commands |-> << >> ]

\* a row as append_files() creates it: (icon, f, duration, None, True, False)
NewRow(id) == [id |-> id, progress |-> Unset, selected |-> TRUE, in_progress |-> FALSE]

RowIds(model) == { model[i].id : i \in 1..Len(model) }

\* the row an iterator denotes
Row(model, itr) == model[CHOOSE i \in 1..Len(model) : model[i].id = itr]

\* Gtk.ListStore.set_value(itr, column, value); an iterator that denotes no
\* row of the store (None) changes nothing
set_value(model, itr, col, val) ==
    [ i \in 1..Len(model) |->
        IF model[i].id = itr
        THEN CASE col = "PROGRESS"    -> [model[i] EXCEPT !.progress = val]
               [] col = "SELECTED"    -> [model[i] EXCEPT !.selected = (val = 1)]
               [] col = "IN_PROGRESS" -> [model[i] EXCEPT !.in_progress = (val = 1)]
        ELSE model[i] ]

(***************************************************************************)
(* Idle callbacks (GLib.idle_add).  run is the worker thread that queued   *)
(* the callback (0: the event-loop thread); it is history.                 *)
(***************************************************************************)
IdleSetValue(itr, col, val, run) ==
    [op |-> "set_value", itr |-> itr, col |-> col, val |-> val, text |-> "", run |-> run]

\* @run_idle update_active_buttons(active)
IdleButtons(active, run) ==
    [op |-> "update_active_buttons", itr |-> NoItr, col |-> "", val |-> active, text |-> "", run |-> run]

\* @run_idle show_info_message(text, message_type)
IdleMessage(text, run) ==
    [op |-> "show_info_message", itr |-> NoItr, col |-> "", val |-> 0, text |-> text, run |-> run]

(***************************************************************************)
(* Processes.                                                              *)
(***************************************************************************)
\* subprocess.Popen(command, stdout=PIPE, stderr=PIPE): pipe holds the lines
\* written and not yet read from the descriptor, buf the lines the text
\* reader has taken from the descriptor and readline() has not returned yet,
\* watch the callbacks added with io_add_watch, returncode the exit status
\* (of a process that is not alive any more).
\* History: signalled (terminate() reached it while it ran), run, idx and itr
\* (the thread, queue index and row it was spawned for; 0 for crop),
\* cancelled (a cancel was confirmed during its run before it had exited).
NewProc(run, idx, itr, cancelled) ==
    [ alive |-> TRUE, pipe |-> << >>, buf |-> << >>, watch |-> {},
      returncode |-> 0, signalled |-> FALSE, run |-> run, idx |-> idx, itr |-> itr,
      cancelled |-> cancelled ]

\* exit statuses of a process: success and a failure
ExitCodes == { 0, 1 }

Alive == { p \in 1..Len(procs) : procs[p].alive }

(***************************************************************************)
(* Worker threads.                                                         *)
(***************************************************************************)
\* The thread of convert(commands) / crop(command): its position pc, the
\* loop variables (commands, k, itr), the Popen object not stored yet (newp)
\* and the one wait() was called on (waitp).
\* History: raised (Popen raised), last (queue index of the last job it
\* spawned), cancelled (a cancel was confirmed before it returned),
\* cancel_at (value of last when a cancel was confirmed during its loop, or
\* -1), skipped (rows its loop passed over as not selected), rows0 (the list
\* as it was when the thread was created), reenabled / done_msg / cancel_msg
\* (the callbacks of its terminal step, and of the cancel, have run), size
\* (the number of commands it was given).
NewThread(kind, commands, model) ==
    [ kind |-> kind, pc |-> "start", commands |-> commands, k |-> 1,
      size |-> Len(commands),
      itr |-> NoItr, newp |-> NoProc, waitp |-> NoProc,
      raised |-> FALSE, last |-> 0, cancelled |-> FALSE, cancel_at |-> -1,
      skipped |-> {}, rows0 |-> model,
      reenabled |-> FALSE, done_msg |-> FALSE, cancel_msg |-> FALSE ]

\* a thread that has returned: its locals are gone
Returned(th) ==
    [th EXCEPT !.pc = "done", !.commands = << >>, !.k = 1, !.itr = NoItr,
               !.newp = NoProc, !.waitp = NoProc, !.skipped = {}, !.rows0 = << >>]

Running == { w \in 1..Len(threads) : threads[w].pc # "done" }

Init ==
    /\ files_model = << >>
    /\ next_id = 0
    /\ in_progress = FALSE
    /\ current_process = NoProc
    /\ current_itr = NoItr
    /\ duration = FloatZero
    /\ current_crop_file = FALSE
    /\ tool = "convert"
    /\ convert_button \in { [visible |-> TRUE, sensitive |-> s] : s \in BOOLEAN }
    /\ info_bar = [visible |-> FALSE, text |-> ""]
    /\ idle = << >>
    /\ threads = << >>
    /\ procs = << >>
    /\ user \in Scenarios
    /\ observed = [line |-> NoMatch, read |-> FALSE, from |-> NoProc,
                   duration_line |-> NoMatch, duration_from |-> NoProc]
    /\ built = NoBuild
    /\ presets = DefaultPresets
    /\ widgets = [ category_combo_box |-> [items |-> sorted(DefaultPresets), active |-> 0],
                   profile_combo_box |-> [items |-> << >>, active |-> 0],
                   category_name_entry |-> FALSE,
                   profile_box |-> FALSE,
                   options_cancel_button |-> FALSE,
                   options_add_button |-> FALSE,
                   options_apply_button |-> FALSE ]


(***************************************************************************)
(* Handlers of the event-loop thread.                                      *)
(***************************************************************************)
Shared == << in_progress, current_process, current_itr, duration >>

\* on_file_model_changed(model, path, iter): the convert button is
\* sensitive while the list has rows
on_file_model_changed(model) ==
    [convert_button EXCEPT !.sensitive = (Len(model) > 0)]

\* add_files_callback / append_files: one file of the chooser is appended
\* (the chooser is the one of the converter tool)
append_files ==
    /\ tool = "convert"
    /\ user.files > 0
    /\ user' = [user EXCEPT !.files = @ - 1]
    /\ next_id' = next_id + 1
    /\ files_model' = Append(files_model, NewRow(next_id + 1))
    /\ convert_button' = on_file_model_changed(files_model')
    /\ UNCHANGED << Shared, current_crop_file, tool, info_bar, idle, threads,
                    procs, observed,
                    built, presets, widgets >>

\* add_file_to_crop: the chooser of the crop tool returned a file whose
\* metadata has a duration and a file name
add_file_to_crop ==
    /\ tool = "crop"
    /\ ~current_crop_file
    /\ current_crop_file' = TRUE
    /\ UNCHANGED << files_model, next_id, Shared, tool, convert_button,
                    info_bar, idle, threads, procs, user, observed,
                    built, presets, widgets >>

\* a row edit of the user, within the budget
Edit(model) ==
    /\ user.edits > 0
    /\ user' = [user EXCEPT !.edits = @ - 1, !.edited = TRUE]
    /\ files_model' = model
    /\ UNCHANGED << next_id, Shared, current_crop_file, tool, convert_button,
                    info_bar, idle, threads, procs, observed,
                    built, presets, widgets >>

\* on_selected_toggled(toggle, path): the check box of row i is clicked
on_selected_toggled(i) ==
    Edit([files_model EXCEPT ![i].selected = ~files_model[i].selected])

\* on_key_press(view, event_key) for the space key, the cursor on row i
on_key_press_space(i) ==
    Edit([files_model EXCEPT ![i].selected = ~files_model[i].selected])

\* on_select_all(view)
on_select_all ==
    /\ files_model # << >>
    /\ Edit([i \in 1..Len(files_model) |-> [files_model[i] EXCEPT !.selected = TRUE]])

\* on_unselect(item), for the rows S selected in the tree view
on_unselect(S) ==
    Edit([i \in 1..Len(files_model) |->
            IF i \in S THEN [files_model[i] EXCEPT !.selected = FALSE]
            ELSE files_model[i]])

\* on_remove(item), for the rows S selected in the tree view: the rows are
\* deleted, and the row-deleted signal runs on_file_model_changed
on_remove(S) ==
    /\ user.removals > 0
    /\ user' = [user EXCEPT !.removals = @ - 1, !.edited = TRUE]
    /\ files_model' = SelectSeq(files_model,
                                LAMBDA row : row.id \notin { files_model[i].id : i \in S })
    /\ convert_button' = on_file_model_changed(files_model')
    /\ UNCHANGED << next_id, Shared, current_crop_file, tool, info_bar, idle,
                    threads, procs, observed,
                    built, presets, widgets >>

\* on_key_press(view, event_key) for the Delete key, the rows S selected in
\* the tree view
on_key_press_delete(S) ==
    IF in_progress
    THEN /\ user.removals > 0
         /\ user' = [user EXCEPT !.removals = @ - 1]
         /\ idle' = Append(idle, IdleMessage("This operation is not allowed during the conversion process!", 0))
         /\ UNCHANGED << files_model, next_id, Shared, current_crop_file, tool,
                         convert_button, info_bar, threads, procs, observed,
                    built, presets, widgets >>
    ELSE on_remove(S)

\* on_stack_child_changed(stack, param): the other tool becomes visible
on_stack_child_changed ==
    /\ user.switches > 0
    /\ user' = [user EXCEPT !.switches = @ - 1]
    /\ tool' = IF tool = "convert" THEN "crop" ELSE "convert"
    /\ convert_button' = [convert_button EXCEPT
                            !.sensitive = (Len(files_model) > 0 \/ tool' = "crop")]
    /\ UNCHANGED << files_model, next_id, Shared, current_crop_file, info_bar,
                    idle, threads, procs, observed,
                    built, presets, widgets >>

\* The execute control of the window is the convert button: it can be
\* activated while it is visible and sensitive.
ExecuteEnabled == convert_button.visible /\ convert_button.sensitive

\* do_convert builds one command per row of the list, in list order, each
\* with the index of its row: [(command, 0), (command, 1), ...]
Commands(model) == [i \in 1..Len(model) |-> i]

\* What self._output_folder_chooser.get_filename() can return: None, the
\* path of a directory, or a path that is not (or is no longer) a directory.
Folders == { "None", "directory", "not a directory" }

\* on_execute(item), with the state of the output folder chooser
\* (use_source_folder, base_path) and of the two combo boxes (fmt, option
\* have an active text) as the user left them.
on_execute(use_source_folder, base_path, fmt, option) ==
    /\ user.executes > 0
    /\ user.overlap \/ Running = {}
    /\ user' = [user EXCEPT !.executes = @ - 1]
    /\ ExecuteEnabled
    /\ IF ~use_source_folder /\ base_path = "None"
       THEN \* "Error. Output folder is not set!"
            /\ idle' = Append(idle, IdleMessage("Error. Output folder is not set!", 0))
            /\ UNCHANGED threads
       ELSE IF tool = "convert"
       THEN \* do_convert
            IF ~fmt /\ ~option
            THEN /\ idle' = Append(idle, IdleMessage("Error. Check the settings!", 0))
                 /\ UNCHANGED threads
            ELSE IF ~fmt \/ ~option
            THEN \* self._presets.get(fmt).get(option) is None: AttributeError,
                 \* the handler ends with a traceback
                 UNCHANGED << idle, threads >>
            ELSE /\ threads' = Append(threads, NewThread("convert", Commands(files_model), files_model))
                 /\ UNCHANGED idle
       ELSE \* do_crop
            IF ~current_crop_file
            THEN /\ idle' = Append(idle, IdleMessage("No file selected!", 0))
                 /\ UNCHANGED threads
            ELSE /\ threads' = Append(threads, NewThread("crop", << >>, files_model))
                 /\ UNCHANGED idle
    /\ info_bar' = [info_bar EXCEPT !.visible = FALSE]
    /\ UNCHANGED << files_model, next_id, Shared, current_crop_file, tool,
                    convert_button, procs, observed,
                    built, presets, widgets >>

\* Popen.terminate(): SIGTERM to a process that has not ended
terminate(ps, p) ==
    IF p # NoProc /\ ps[p].alive THEN [ps EXCEPT ![p].signalled = TRUE] ELSE ps

\* on_cancel(item) with the dialog answered OK
on_cancel ==
    /\ user.cancels > 0
    /\ user' = [user EXCEPT !.cancels = @ - 1]
    /\ in_progress' = FALSE
    /\ procs' = [ p \in 1..Len(procs) |->
                    [ terminate(procs, current_process)[p] EXCEPT
                        !.cancelled = @ \/ procs[p].alive ] ]
    /\ idle' = Append(idle, IdleMessage("Task canceled.", 0))
    /\ threads' = [w \in 1..Len(threads) |->
                     IF threads[w].pc = "done" THEN threads[w]
                     ELSE [threads[w] EXCEPT
                             !.cancelled = TRUE,
                             !.cancel_at = IF threads[w].pc # "start" /\ @ = -1
                                           THEN threads[w].last ELSE @]]
    /\ UNCHANGED << files_model, next_id, current_process, current_itr,
                    duration, current_crop_file, tool, convert_button,
                    info_bar, observed,
                    built, presets, widgets >>

(***************************************************************************)
(* Sources of the event loop: stderr watches, then idle callbacks.         *)
(***************************************************************************)
\* the descriptors with a watch that poll() reports readable (IO_IN)
Readable == { p \in 1..Len(procs) : procs[p].watch # {} /\ procs[p].pipe # << >> }

\* fd.readline(): the text reader takes what the descriptor holds and returns
\* the first line it has
readline(ps, p) ==
    [ps EXCEPT ![p].pipe = << >>, ![p].buf = Tail(ps[p].buf \o ps[p].pipe)]

TheLine(p) == Head(procs[p].buf \o procs[p].pipe)

\* the body of write_to_buffer with progress written for a duration of 0 too
parse_no_guard(line, dur, model, itr) ==
    IF line.m
    THEN IF line.g1
         THEN [duration |-> d_time(line), files_model |-> model]
         ELSE [duration |-> dur,
               files_model |-> set_value(model, itr, "PROGRESS",
                                         IF dur # FloatZero THEN done(line, dur) ELSE 0)]
    ELSE [duration |-> dur, files_model |-> model]

\* the body of write_to_buffer after readline(): what it makes of
\* self._duration and of the list
parse(line, dur, model, itr) ==
    IF line.m
    THEN IF line.g1
         THEN [duration |-> d_time(line), files_model |-> model]
         ELSE IF dur # FloatZero
         THEN [duration |-> dur,
               files_model |-> set_value(model, itr, "PROGRESS", done(line, dur))]
         ELSE [duration |-> dur, files_model |-> model]
    ELSE [duration |-> dur, files_model |-> model]

\* write_to_buffer(fd, condition) for condition == GLib.IO_IN
write_to_buffer(p) ==
    /\ p \in Readable
    /\ "write_to_buffer" \in procs[p].watch
    /\ LET line == TheLine(p)
           res == parse(line, duration, files_model, current_itr)
       IN /\ procs' = readline(procs, p)
          /\ duration' = res.duration
          /\ files_model' = res.files_model
          /\ observed' = [observed EXCEPT
                            !.line = line, !.read = TRUE, !.from = p,
                            !.duration_line = IF line.m /\ line.g1 THEN line ELSE @,
                            !.duration_from = IF line.m /\ line.g1 THEN p ELSE @]
    /\ UNCHANGED << next_id, in_progress, current_process, current_itr,
                    current_crop_file, tool, convert_button, info_bar, idle,
                    threads, user,
                    built, presets, widgets >>

\* write_crop_to_buffer(fd, condition) for condition == GLib.IO_IN
write_crop_to_buffer(p) ==
    /\ p \in Readable
    /\ "write_crop_to_buffer" \in procs[p].watch
    /\ procs' = readline(procs, p)
    /\ UNCHANGED << files_model, next_id, Shared, current_crop_file, tool,
                    convert_button, info_bar, idle, threads, user, observed,
                    built, presets, widgets >>

\* The first idle callback runs when no source of default priority is ready.
idle_dispatch ==
    /\ idle # << >>
    /\ Readable = {}
    /\ LET cb == Head(idle) IN
       /\ idle' = Tail(idle)
       /\ files_model' = IF cb.op = "set_value"
                         THEN set_value(files_model, cb.itr, cb.col, cb.val)
                         ELSE files_model
       /\ convert_button' = IF cb.op = "update_active_buttons"
                            THEN [convert_button EXCEPT !.visible = (cb.val = 1)]
                            ELSE convert_button
       /\ info_bar' = IF cb.op = "show_info_message"
                      THEN [visible |-> TRUE, text |-> cb.text]
                      ELSE info_bar
       /\ threads' = [w \in 1..Len(threads) |->
                        [threads[w] EXCEPT
                           !.reenabled = @ \/ (cb.op = "update_active_buttons" /\ cb.val = 1 /\ cb.run = w),
                           !.done_msg = @ \/ (cb.text = "Done!" /\ cb.run = w),
                           !.cancel_msg = @ \/ (cb.text = "Task canceled." /\ threads[w].cancelled)]]
    /\ UNCHANGED << next_id, Shared, current_crop_file, tool, procs, user, observed,
                    built, presets, widgets >>

(***************************************************************************)
(* The ffmpeg processes.                                                   *)
(***************************************************************************)
proc_write(p, line) ==
    /\ procs[p].alive
    /\ user.lines > 0
    /\ user' = [user EXCEPT !.lines = @ - 1]
    /\ procs' = [procs EXCEPT ![p].pipe = Append(@, line)]
    /\ UNCHANGED << files_model, next_id, Shared, current_crop_file, tool,
                    convert_button, info_bar, idle, threads, observed,
                    built, presets, widgets >>

\* the process ends with exit status code (a status other than 0 within
\* the budget)
proc_exit(p, code) ==
    /\ procs[p].alive
    /\ code # 0 => user.failures > 0
    /\ user' = [user EXCEPT !.failures = IF code # 0 THEN @ - 1 ELSE @]
    /\ procs' = [procs EXCEPT ![p].alive = FALSE, ![p].returncode = code]
    /\ UNCHANGED << files_model, next_id, Shared, current_crop_file, tool,
                    convert_button, info_bar, idle, threads, observed,
                    built, presets, widgets >>

(***************************************************************************)
(* Steps of a worker thread.                                               *)
(***************************************************************************)
OtherVars == << next_id, current_crop_file, tool, convert_button, info_bar,
                user, observed, built, presets, widgets >>

\* update_active_buttons(False) without self._in_progress = True
w_start_no_flag(w) ==
    /\ threads[w].pc = "start"
    /\ idle' = Append(idle, IdleButtons(0, w))
    /\ threads' = [threads EXCEPT ![w].pc = IF threads[w].kind = "convert" THEN "loop" ELSE "popen"]
    /\ UNCHANGED << files_model, in_progress, current_process, current_itr, duration, procs, OtherVars >>

\* update_active_buttons(False); self._in_progress = True
w_start(w) ==
    /\ threads[w].pc = "start"
    /\ idle' = Append(idle, IdleButtons(0, w))
    /\ in_progress' = TRUE
    /\ threads' = [threads EXCEPT ![w].pc = IF threads[w].kind = "convert" THEN "loop" ELSE "popen"]
    /\ UNCHANGED << files_model, current_process, current_itr, duration, procs, OtherVars >>

\* for command, path in commands: if not self._in_progress: break;
\* itr = get_iter(path) (ValueError: continue);
\* if not get_value(itr, Column.SELECTED): continue
w_loop(w) ==
    /\ threads[w].pc = "loop"
    /\ LET path == threads[w].commands[threads[w].k] IN
       threads' = IF threads[w].k > Len(threads[w].commands) \/ ~in_progress
                  THEN [threads EXCEPT ![w].pc = "finally"]
                  ELSE IF path > Len(files_model)
                  THEN [threads EXCEPT ![w].k = @ + 1]
                  ELSE IF ~files_model[path].selected
                  THEN [threads EXCEPT ![w].k = @ + 1,
                                       ![w].skipped = @ \cup {files_model[path].id}]
                  ELSE [threads EXCEPT ![w].itr = files_model[path].id, ![w].pc = "popen"]
    /\ UNCHANGED << files_model, in_progress, current_process, current_itr,
                    duration, idle, procs, OtherVars >>

\* the queue index of the job a thread is at (0: the crop job)
JobIndex(w) ==
    IF threads[w].kind = "convert" THEN threads[w].commands[threads[w].k] ELSE 0

\* subprocess.Popen(command, ...) returns a running process
w_popen(w) ==
    /\ threads[w].pc = "popen"
    /\ procs' = Append(procs, NewProc(w, JobIndex(w), threads[w].itr, threads[w].cancelled))
    /\ threads' = [threads EXCEPT ![w].newp = Len(procs) + 1, ![w].pc = "store",
                                  ![w].last = JobIndex(w)]
    /\ UNCHANGED << files_model, in_progress, current_process, current_itr,
                    duration, idle, OtherVars >>

\* subprocess.Popen(command, ...) raises OSError: the try block is left
w_popen_raises(w) ==
    /\ threads[w].pc = "popen"
    /\ threads' = [threads EXCEPT ![w].raised = TRUE, ![w].pc = "finally"]
    /\ UNCHANGED << files_model, in_progress, current_process, current_itr,
                    duration, idle, procs, OtherVars >>

\* self._current_process = <the Popen object>
w_store(w) ==
    /\ threads[w].pc = "store"
    /\ current_process' = threads[w].newp
    /\ threads' = [threads EXCEPT ![w].pc = "watch"]
    /\ UNCHANGED << files_model, in_progress, current_itr, duration, idle,
                    procs, OtherVars >>

\* convert only:
\*   if self._current_itr: idle_add(set_value, self._current_itr, PROGRESS, 100)
\*   self._current_itr = itr; idle_add(set_value, itr, IN_PROGRESS, True)
\* GLib.io_add_watch(self._current_process.stderr, GLib.IO_IN, callback);
\* self._current_process.wait() is called
w_watch(w) ==
    /\ threads[w].pc = "watch"
    /\ IF threads[w].kind = "convert"
       THEN /\ idle' = (IF current_itr # NoItr
                        THEN Append(idle, IdleSetValue(current_itr, "PROGRESS", 100, w))
                        ELSE idle)
                       \o << IdleSetValue(threads[w].itr, "IN_PROGRESS", 1, w) >>
            /\ current_itr' = threads[w].itr
       ELSE UNCHANGED << idle, current_itr >>
    /\ procs' = [procs EXCEPT ![current_process].watch =
                   @ \cup { IF threads[w].kind = "convert"
                            THEN "write_to_buffer" ELSE "write_crop_to_buffer" }]
    /\ threads' = [threads EXCEPT ![w].waitp = current_process, ![w].pc = "wait"]
    /\ UNCHANGED << files_model, in_progress, current_process, duration, OtherVars >>

\* wait() returns and an exit status other than 0 ends the loop
w_wait_checks_status(w) ==
    /\ threads[w].pc = "wait"
    /\ ~procs[threads[w].waitp].alive
    /\ threads' = [threads EXCEPT ![w].pc = IF threads[w].kind = "convert"
                                               /\ procs[threads[w].waitp].returncode = 0
                                            THEN "deselect" ELSE "finally"]
    /\ UNCHANGED << files_model, in_progress, current_process, current_itr,
                    duration, idle, procs, OtherVars >>

\* self._current_process.wait() returns
w_wait(w) ==
    /\ threads[w].pc = "wait"
    /\ ~procs[threads[w].waitp].alive
    /\ threads' = [threads EXCEPT ![w].pc = IF threads[w].kind = "convert" THEN "deselect" ELSE "finally"]
    /\ UNCHANGED << files_model, in_progress, current_process, current_itr,
                    duration, idle, procs, OtherVars >>

\* the loop goes on to the next command and leaves the row selected
w_deselect_skipped(w) ==
    /\ threads[w].pc = "deselect"
    /\ threads' = [threads EXCEPT ![w].k = @ + 1, ![w].pc = "loop"]
    /\ UNCHANGED << files_model, in_progress, current_process, current_itr, duration,
                    idle, procs, OtherVars >>

\* self._files_model.set_value(itr, Column.SELECTED, False)
w_deselect(w) ==
    /\ threads[w].pc = "deselect"
    /\ files_model' = set_value(files_model, threads[w].itr, "SELECTED", 0)
    /\ threads' = [threads EXCEPT ![w].k = @ + 1, ![w].pc = "loop"]
    /\ UNCHANGED << in_progress, current_process, current_itr, duration,
                    idle, procs, OtherVars >>

\* finally: self.update_active_buttons(True)
w_finally(w) ==
    /\ threads[w].pc = "finally"
    /\ idle' = Append(idle, IdleButtons(1, w))
    /\ threads' = [threads EXCEPT ![w].pc = "check"]
    /\ UNCHANGED << files_model, in_progress, current_process, current_itr,
                    duration, procs, OtherVars >>

\* if self._in_progress:
w_check(w) ==
    /\ threads[w].pc = "check"
    /\ threads' = [threads EXCEPT ![w] = IF in_progress THEN [@ EXCEPT !.pc = "finish"] ELSE Returned(@)]
    /\ UNCHANGED << files_model, in_progress, current_process, current_itr,
                    duration, idle, procs, OtherVars >>

\* self._in_progress = False; self.show_info_message("Done!", INFO);
\* convert only: idle_add(set_value, self._current_itr, PROGRESS, 100)
w_finish(w) ==
    /\ threads[w].pc = "finish"
    /\ in_progress' = FALSE
    /\ idle' = Append(idle, IdleMessage("Done!", w))
               \o (IF threads[w].kind = "convert"
                   THEN << IdleSetValue(current_itr, "PROGRESS", 100, w) >>
                   ELSE << >>)
    /\ threads' = [threads EXCEPT ![w] = Returned(@)]
    /\ UNCHANGED << files_model, current_process, current_itr, duration,
                    procs, OtherVars >>

Worker(w) ==
    \/ w_start(w)
    \/ w_loop(w)
    \/ w_popen(w)
    \/ w_popen_raises(w)
    \/ w_store(w)
    \/ w_watch(w)
    \/ w_wait(w)
    \/ w_deselect(w)
    \/ w_finally(w)
    \/ w_check(w)
    \/ w_finish(w)

EventLoop ==
    \/ append_files
    \/ add_file_to_crop
    \/ \E i \in 1..Len(files_model) : on_selected_toggled(i)
    \/ \E i \in 1..Len(files_model) : on_key_press_space(i)
    \/ on_select_all
    \/ \E i \in 1..Len(files_model) : on_unselect({i})
    \/ \E i \in 1..Len(files_model) : on_remove({i})
    \/ \E i \in 1..Len(files_model) : on_key_press_delete({i})
    \/ on_stack_child_changed
    \/ \E use_source_folder, fmt, option \in BOOLEAN, base_path \in Folders :
          on_execute(use_source_folder, base_path, fmt, option)
    \/ on_cancel
    \/ \E p \in 1..Len(procs) : write_to_buffer(p)
    \/ \E p \in 1..Len(procs) : write_crop_to_buffer(p)
    \/ idle_dispatch

Process ==
    \/ \E p \in 1..Len(procs), line \in StderrLines : proc_write(p, line)
    \/ \E p \in 1..Len(procs), code \in ExitCodes : proc_exit(p, code)

\* (what the commands hold is not part of these steps: convert() hands each
\* command to Popen as it is, Commands keeps the indices only, and built
\* stays as it is)
Next ==
    \/ EventLoop
    \/ \E w \in 1..Len(threads) : Worker(w)
    \/ Process

Spec == Init /\ [][Next]_vars

(***************************************************************************)
(* The command builder on its own: do_convert applied once to a list of    *)
(* files, a preset, the overwrite switch and the output folder.            *)
(***************************************************************************)
\* paths the file chooser can return: "/a/b.x", "/a/b.y", "/b.y", "/a/b",
\* "/a/.b", "/a/b.x.y", "/a/b."
InFiles ==
    { << "/", "a", "/", "b", ".", "x" >>,
      << "/", "a", "/", "b", ".", "y" >>,
      << "/", "b", ".", "y" >>,
      << "/", "a", "/", "b" >>,
      << "/", "a", "/", ".", "b" >>,
      << "/", "a", "/", "b", ".", "x", ".", "y" >>,
      << "/", "a", "/", "b", "." >> }

\* folders the output folder chooser can return: "/a", "/o", "/"
OutFolders == { << "/", "a" >>, << "/", "o" >>, << "/" >> }

\* presets: {"params": "-c y", "extension": "y"},
\* {"params": "-c  y -q", "extension": "x"}, {"params": "", "extension": "y"}
Presets ==
    { [params |-> << "-", "c", " ", "y" >>, extension |-> << "y" >>],
      [params |-> << "-", "c", " ", " ", "y", " ", "-", "q" >>, extension |-> << "x" >>],
      [params |-> << >>, extension |-> << "y" >>] }

\* the rows of the list when do_convert is called: 1..MaxRows files
FileLists == UNION { [1..n -> InFiles] : n \in 1..MaxRows }

Build ==
    /\ built = NoBuild
    /\ \E files \in FileLists, prm \in Presets, overwrite, use_source_folder \in BOOLEAN,
          base_path \in OutFolders :
          built' = [ files |-> files, prm |-> prm, overwrite |-> overwrite,
                     base_path |-> base_path, use_source_folder |-> use_source_folder,
                     commands |-> do_convert(files, prm, overwrite, base_path,
                                             use_source_folder) ]
    /\ UNCHANGED << files_model, next_id, in_progress, current_process, current_itr,
                    duration, current_crop_file, tool, convert_button, info_bar,
                    idle, threads, procs, user, observed, presets, widgets >>

SpecBuild == Init /\ [][Build]_vars

(***************************************************************************)
(* The preset editor on its own: the handlers of the category and profile  *)
(* menus and of the add, apply and cancel buttons.  A combo box is its     *)
(* items and the number of its active row (0 when get_active() is -1); a   *)
(* widget that is only shown or hidden is its visible property.            *)
(***************************************************************************)
\* what the preset editor leaves alone
QueueVars == << files_model, next_id, in_progress, current_process, current_itr,
                duration, current_crop_file, tool, convert_button, info_bar,
                threads, procs, user, observed, built >>

\* Gtk.ComboBoxText.get_active_text()
get_active_text(box) == IF box.active = 0 THEN NoText ELSE box.items[box.active]

\* l.180-181: the apply and add buttons follow the cancel button
set_cancel_visible(w, v) ==
    IF w.options_cancel_button = v THEN w
    ELSE [w EXCEPT !.options_cancel_button = v,
                   !.options_apply_button = v,
                   !.options_add_button = v]

\* self._category_name_entry.set_visible(v), with the binding of l.171
set_entry_visible(w, v) ==
    IF w.category_name_entry = v THEN w
    ELSE set_cancel_visible([w EXCEPT !.category_name_entry = v], v)

\* update_active_option_elements(active), with the binding of l.179
update_active_option_elements(w, active) ==
    IF w.profile_box = active THEN w
    ELSE set_cancel_visible([w EXCEPT !.profile_box = active], active)

\* on_category_changed(box): the profile box is filled again with the
\* profiles of the active category (none when options is None or empty)
on_category_changed(w, d) ==
    LET text == get_active_text(w.category_combo_box)
        options == IF contains(d, text) THEN getitem(d, text) ELSE << >>
    IN [w EXCEPT !.profile_combo_box = [items |-> keys(options), active |-> 0]]

\* update_categories(active_category), over the catalog d
update_categories(w, d, active_category) ==
    LET items == sorted(d)
        found == { i \in 1..Len(items) : items[i] = active_category }
        cat_index == IF found = {} THEN 1 ELSE CHOOSE i \in found : TRUE
    IN on_category_changed(
         [w EXCEPT !.category_combo_box =
                      [items |-> items,
                       active |-> IF items = << >> THEN 0 ELSE cat_index]], d)

\* the user picks row i of the category box ("changed": on_category_changed)
category_selected(i) ==
    /\ ~widgets.category_name_entry /\ ~widgets.profile_box
    /\ i \in 1..Len(widgets.category_combo_box.items)
    /\ i # widgets.category_combo_box.active
    /\ widgets' = on_category_changed(
                     [widgets EXCEPT !.category_combo_box.active = i], presets)
    /\ UNCHANGED << presets, idle, QueueVars >>

\* the user picks row j of the profile box
profile_selected(j) ==
    /\ ~widgets.category_name_entry /\ ~widgets.profile_box
    /\ j \in 1..Len(widgets.profile_combo_box.items)
    /\ j # widgets.profile_combo_box.active
    /\ widgets' = [widgets EXCEPT !.profile_combo_box.active = j]
    /\ UNCHANGED << presets, idle, QueueVars >>

\* a handler of the category or profile menu can run: the menus are
\* insensitive while the category entry is shown (l.175, l.177)
MenuEnabled == ~widgets.category_name_entry /\ Len(idle) < MaxPending

on_category_add ==
    /\ MenuEnabled
    /\ widgets' = [set_entry_visible(widgets, TRUE) EXCEPT !.options_apply_button = FALSE]
    /\ UNCHANGED << presets, idle, QueueVars >>

on_category_edit ==
    /\ MenuEnabled
    /\ IF get_active_text(widgets.category_combo_box) = NoText
       THEN /\ idle' = Append(idle, IdleMessage("No category selected!", 0))
            /\ UNCHANGED widgets
       ELSE /\ widgets' = [set_entry_visible(widgets, TRUE) EXCEPT
                              !.options_add_button = FALSE]
            /\ UNCHANGED idle
    /\ UNCHANGED << presets, QueueVars >>

\* combo_box.remove(active): no row is active then, and "changed" is emitted
on_category_remove ==
    /\ MenuEnabled
    /\ LET box == widgets.category_combo_box
           category == get_active_text(box)
       IN IF category = NoText
          THEN /\ idle' = Append(idle, IdleMessage("No category selected!", 0))
               /\ UNCHANGED << presets, widgets >>
          ELSE /\ presets' = pop(presets, category)
               /\ widgets' = on_category_changed(
                    [widgets EXCEPT !.category_combo_box =
                        [items |-> [ i \in 1..(Len(box.items) - 1) |->
                                       IF i < box.active THEN box.items[i]
                                       ELSE box.items[i + 1] ],
                         active |-> 0]], presets')
               /\ UNCHANGED idle
    /\ UNCHANGED QueueVars

on_category_restore_defaults ==
    /\ MenuEnabled
    /\ presets' = DefaultPresets
    /\ LET w == [widgets EXCEPT !.category_combo_box =
                    [items |-> sorted(DefaultPresets), active |-> 0]]
       IN widgets' = IF widgets.category_combo_box.active # 0
                     THEN on_category_changed(w, presets')
                     ELSE w
    /\ idle' = Append(idle, IdleMessage("Done!", 0))
    /\ UNCHANGED QueueVars

on_profile_add ==
    /\ MenuEnabled
    /\ IF get_active_text(widgets.category_combo_box) = NoText
       THEN /\ idle' = Append(idle, IdleMessage("No category selected!", 0))
            /\ UNCHANGED widgets
       ELSE /\ widgets' = [update_active_option_elements(widgets, TRUE) EXCEPT
                              !.options_apply_button = FALSE]
            /\ UNCHANGED idle
    /\ UNCHANGED << presets, QueueVars >>

on_profile_edit ==
    /\ MenuEnabled
    /\ IF get_active_text(widgets.category_combo_box) = NoText
       THEN /\ idle' = Append(idle, IdleMessage("No category selected!", 0))
            /\ UNCHANGED widgets
       ELSE IF get_active_text(widgets.profile_combo_box) = NoText
       THEN /\ idle' = Append(idle, IdleMessage("No profile selected!", 0))
            /\ UNCHANGED widgets
       ELSE /\ widgets' = [update_active_option_elements(widgets, TRUE) EXCEPT
                              !.options_add_button = FALSE]
            /\ UNCHANGED idle
    /\ UNCHANGED << presets, QueueVars >>

on_profile_remove ==
    /\ MenuEnabled
    /\ LET profile == get_active_text(widgets.profile_combo_box)
           category_name == get_active_text(widgets.category_combo_box)
       IN IF profile = NoText
          THEN /\ idle' = Append(idle, IdleMessage("No profile selected!", 0))
               /\ UNCHANGED << presets, widgets >>
          ELSE IF ~contains(presets, category_name)
          THEN \* category is None: AttributeError
               UNCHANGED << presets, widgets, idle >>
          ELSE /\ presets' = setitem(presets, category_name,
                                     pop(getitem(presets, category_name), profile))
               /\ widgets' = on_category_changed(widgets, presets')
               /\ UNCHANGED idle
    /\ UNCHANGED QueueVars

\* category_add(), with category_name the text of the category entry
category_add(category_name) ==
    IF contains(presets, category_name)
    THEN /\ idle' = Append(idle, IdleMessage("Category with this name already exists!", 0))
         /\ UNCHANGED << presets, widgets >>
    ELSE /\ presets' = setitem(presets, category_name, << >>)
         /\ widgets' = update_categories(set_entry_visible(widgets, FALSE),
                                         presets', category_name)
         /\ UNCHANGED idle

\* profile_add(), with the texts of the profile entries.  The rows of the
\* profile box were appended with append_text and have no id, so
\* set_active_id(profile_name) finds no row.
profile_add(profile_name, params) ==
    LET category_name == get_active_text(widgets.category_combo_box) IN
    IF ~contains(presets, category_name)
    THEN \* category is None: TypeError
         UNCHANGED << presets, widgets, idle >>
    ELSE IF contains(getitem(presets, category_name), profile_name)
    THEN /\ idle' = Append(idle, IdleMessage("Profile with this name already exists!", 0))
         /\ UNCHANGED << presets, widgets >>
    ELSE /\ presets' = setitem(presets, category_name,
                               setitem(getitem(presets, category_name),
                                       profile_name, Profile(params)))
         /\ widgets' = on_category_changed(widgets, presets')
         /\ idle' = Append(idle, IdleMessage("Profile successfully added!", 0))

\* on_options_add(button, event): the add button is pressed
on_options_add(text, params) ==
    /\ widgets.options_add_button
    /\ Len(idle) < MaxPending
    /\ text \in (IF widgets.category_name_entry THEN CategoryTexts ELSE ProfileNames)
    /\ IF widgets.category_name_entry
       THEN category_add(text)
       ELSE profile_add(text, params)
    /\ UNCHANGED QueueVars

\* on_options_cancel(), applied to the widgets w
on_options_cancel(w) ==
    IF w.category_name_entry
    THEN set_entry_visible(w, FALSE)
    ELSE update_active_option_elements(w, FALSE)

\* the cancel button is pressed
options_cancel ==
    /\ widgets.options_cancel_button
    /\ widgets' = on_options_cancel(widgets)
    /\ UNCHANGED << presets, idle, QueueVars >>

\* category_options_apply() and then on_options_cancel(), with new_name the
\* text of the category entry
category_options_apply(new_name) ==
    LET category_name == get_active_text(widgets.category_combo_box) IN
    IF category_name # new_name
    THEN /\ presets' = setitem(pop(presets, category_name), new_name,
                               IF contains(presets, category_name)
                               THEN getitem(presets, category_name) ELSE << >>)
         /\ widgets' = on_options_cancel(update_categories(widgets, presets', new_name))
    ELSE /\ presets' = presets
         /\ widgets' = on_options_cancel(widgets)

\* profile_options_apply() and then on_options_cancel(), with the texts of
\* the profile entries
profile_options_apply(new_name, params) ==
    LET category_name == get_active_text(widgets.category_combo_box)
        current_name == get_active_text(widgets.profile_combo_box)
    IN IF ~contains(presets, category_name)
          \/ ~contains(getitem(presets, category_name), current_name)
       THEN \* category is None (AttributeError) or has no such profile
            \* (KeyError, TypeError): on_options_apply stops here
            UNCHANGED << presets, widgets >>
       ELSE LET category == getitem(presets, category_name)
                popped == IF current_name # new_name
                          THEN pop(category, current_name) ELSE category
            IN /\ presets' = setitem(presets, category_name,
                                     setitem(popped, new_name, Profile(params)))
               /\ widgets' = on_options_cancel(on_category_changed(widgets, presets'))

\* on_options_apply(button, event): the apply button is pressed
on_options_apply(text, params) ==
    /\ widgets.options_apply_button
    /\ text \in (IF widgets.category_name_entry THEN CategoryTexts ELSE ProfileNames)
    /\ IF widgets.category_name_entry
       THEN category_options_apply(text)
       ELSE profile_options_apply(text, params)
    /\ UNCHANGED << idle, QueueVars >>

\* the callbacks of show_info_message run when the loop is idle
Editor ==
    \/ \E i \in 1..Len(CategoryNames) : category_selected(i)
    \/ \E j \in 1..Cardinality(ProfileNames) : profile_selected(j)
    \/ on_category_add
    \/ on_category_edit
    \/ on_category_remove
    \/ on_category_restore_defaults
    \/ on_profile_add
    \/ on_profile_edit
    \/ on_profile_remove
    \/ \E text \in CategoryTexts \cup ProfileNames,
          params \in ProfileParams : on_options_add(text, params)
    \/ \E text \in CategoryTexts \cup ProfileNames,
          params \in ProfileParams : on_options_apply(text, params)
    \/ options_cancel
    \/ idle_dispatch

\* the queue plays no part: it is empty and stays so
InitPresets ==
    /\ Init
    /\ convert_button.sensitive
    /\ user = Budget(MaxFiles, MaxRuns, MaxCancels, 0, 0, 0, FALSE)

SpecPresets == InitPresets /\ [][Editor]_vars

(***************************************************************************)
(* The claims.                                                             *)
(***************************************************************************)
\* C1: in every reachable state at most one ffmpeg process started by
\* convert() or crop() is alive, and the processes of one run were started
\* in strictly increasing order of queue index.
C1_OneProcessInQueueOrder ==
    /\ Cardinality(Alive) <= 1
    /\ \A p, q \in 1..Len(procs) :
          p < q /\ procs[p].run = procs[q].run => procs[p].idx < procs[q].idx

\* C2: once the user has confirmed a cancel during a conversion run (a job
\* of the run had been started), the in-progress flag stays false while
\* that run is the only one going, the run spawns no process for a job
\* later in the queue than the one active at the cancel, and (the user
\* editing no row) every later row that was selected is still selected with
\* the progress it had.
C2_CancelStopsTheRun ==
    \A w \in 1..Len(threads) :
        threads[w].kind = "convert" /\ threads[w].cancel_at >= 1 =>
            /\ Running = {w} => ~in_progress
            /\ threads[w].last <= threads[w].cancel_at
            /\ threads[w].pc # "done" /\ ~user.edited =>
                  \A i \in 1..Len(threads[w].rows0) :
                     i > threads[w].cancel_at /\ threads[w].rows0[i].selected =>
                        /\ files_model[i].selected
                        /\ files_model[i].progress = threads[w].rows0[i].progress

\* C3: a row that was not selected when the loop of a conversion run
\* reached it has no process of that run, and the run leaves its progress
\* as it was: no callback the run queues sets it to another value.
C3_SkippedRowUntouched ==
    \A w \in 1..Len(threads) :
        threads[w].kind = "convert" =>
            \A id \in threads[w].skipped :
                /\ \A p \in 1..Len(procs) : ~(procs[p].run = w /\ procs[p].itr = id)
                /\ \A j \in 1..Len(idle) :
                      ~ /\ idle[j].run = w
                        /\ idle[j].op = "set_value"
                        /\ idle[j].col = "PROGRESS"
                        /\ idle[j].itr = id
                        /\ idle[j].val # Row(files_model, id).progress

\* C4: when everything has come to rest (no thread runs, no callback is
\* queued, no descriptor is readable; the user edited no row), the row of
\* every conversion job whose process exited on its own (no cancel was
\* confirmed during its run before it had exited) has progress 100 and is
\* not selected.
C4_FinishedRowIsMarked ==
    Running = {} /\ idle = << >> /\ Readable = {} /\ ~user.edited =>
        \A p \in 1..Len(procs) :
            /\ procs[p].itr # NoItr
            /\ ~procs[p].alive /\ ~procs[p].cancelled
            => /\ Row(files_model, procs[p].itr).progress = 100
               /\ ~Row(files_model, procs[p].itr).selected

\* C5: a cancel confirmed while the process of a job is alive sends the
\* termination signal to that process, sets the in-progress flag to false
\* and queues the warning 'Task canceled.'.
C5_CancelReachesTheLiveProcess ==
    [][ user'.cancels < user.cancels /\ Cardinality(Alive) = 1 =>
            /\ \A p \in Alive : procs'[p].signalled
            /\ ~in_progress'
            /\ idle' = Append(idle, IdleMessage("Task canceled.", 0)) ]_vars

\* C6: when a run (conversion or crop) has returned and its callbacks have
\* run, the convert button was made visible again by the run and a message
\* was shown: 'Task canceled.' if a cancel was confirmed during the run,
\* 'Done!' of that run if not.
C6_RunEndsWithItsMessage ==
    \A w \in 1..Len(threads) :
        threads[w].pc = "done" /\ idle = << >> =>
            /\ threads[w].reenabled
            /\ IF threads[w].cancelled THEN threads[w].cancel_msg ELSE threads[w].done_msg

\* C7: no step of a worker thread changes a row of the list or a widget:
\* those change only in steps of the event-loop thread.
C7_WorkerLeavesTheUiAlone ==
    [][ (\E w \in 1..Len(threads) : threads'[w].pc # threads[w].pc) =>
            /\ files_model' = files_model
            /\ convert_button' = convert_button
            /\ info_bar' = info_bar ]_vars

\* the job whose row is the active row: the last process spawned for it
ActiveJob ==
    LET jobs == { p \in 1..Len(procs) : procs[p].itr = current_itr }
    IN IF jobs = {} \/ current_itr = NoItr THEN NoProc
       ELSE CHOOSE p \in jobs : \A q \in jobs : q <= p

\* write_to_buffer reads a line of process p in this step
ReadStep(p) ==
    /\ p \in Readable
    /\ "write_to_buffer" \in procs[p].watch
    /\ procs' = readline(procs, p)

\* C8: the expected duration is reset as each job starts: whenever a
\* timestamp line is turned into a percentage, the duration it is divided
\* by was captured from the stderr of the job whose row is the active row,
\* not from an earlier job or run.
C8_DurationOfTheActiveJob ==
    [][ \A p \in 1..Len(procs) :
            ReadStep(p) /\ TheLine(p).m /\ ~TheLine(p).g1 /\ duration # FloatZero =>
                observed.duration_from = ActiveJob ]_vars

\* C9: while no Duration line has been observed (the expected duration is
\* still 0), reading a timestamp line changes no row of the list: the
\* active row's progress stays as it was.
C9_NoDurationNoProgress ==
    [][ \A p \in 1..Len(procs) :
            ReadStep(p) /\ TheLine(p).m /\ ~TheLine(p).g1 /\ duration = FloatZero =>
                files_model' = files_model ]_vars

\* a timestamp line has been read with no duration known, and the active
\* row's progress is still unset
C9_Witness ==
    /\ observed.read
    /\ observed.line.m
    /\ ~observed.line.g1
    /\ observed.duration_line = NoMatch
    /\ duration = FloatZero
    /\ current_itr \in RowIds(files_model)
    /\ Row(files_model, current_itr).progress = Unset

\* C10: after a Duration line giving D > 0 seconds, a line with a bare
\* timestamp of T seconds sets the active row's progress to
\* floor(T * 100 / D), and a Duration line writes no progress value.
C10_ProgressIsFloorOfRatio ==
    [][ \A p \in 1..Len(procs) :
            ReadStep(p) /\ TheLine(p).m =>
                IF TheLine(p).g1
                THEN files_model' = files_model
                ELSE duration # FloatZero /\ current_itr \in RowIds(files_model) =>
                        LET T == Hundredths(TheLine(p))
                            D == Hundredths(observed.duration_line)
                        IN Row(files_model', current_itr).progress = (T * 100) \div D ]_vars

\* C11: in every state the progress of every row is unset or an integer
\* of 0..100, whatever lines the processes write and however many runs
\* there are.
C11_ProgressIsAPercentage ==
    \A i \in 1..Len(files_model) :
        files_model[i].progress = Unset \/ files_model[i].progress \in 0..100

\* C12: an execute of the converter tool with the category or the profile
\* (either one) missing is rejected with "Error. Check the settings!": no
\* worker thread is started, no process is spawned, and the rows and the
\* in-progress flag stay as they were.
C12_MissingPresetIsRejected ==
    [][ \A use_source_folder, fmt, option \in BOOLEAN, base_path \in Folders :
            /\ on_execute(use_source_folder, base_path, fmt, option)
            /\ tool = "convert"
            /\ use_source_folder \/ base_path = "directory"
            /\ ~fmt \/ ~option
            => /\ idle' = Append(idle, IdleMessage("Error. Check the settings!", 0))
               /\ threads' = threads
               /\ procs' = procs
               /\ files_model' = files_model
               /\ in_progress' = in_progress ]_vars

\* C13: an execute with "use source folder" off and an output folder that
\* is unset or not a valid directory is rejected with "Error. Output folder
\* is not set!": no worker thread is started, no process is spawned, and
\* the rows and the in-progress flag stay as they were.
C13_BadOutputFolderIsRejected ==
    [][ \A fmt, option \in BOOLEAN, base_path \in Folders \ { "directory" } :
            on_execute(FALSE, base_path, fmt, option)
            => /\ idle' = Append(idle, IdleMessage("Error. Output folder is not set!", 0))
               /\ threads' = threads
               /\ procs' = procs
               /\ files_model' = files_model
               /\ in_progress' = in_progress ]_vars

\* the pieces put together again with one space between two of them
RECURSIVE join(_)
join(pieces) ==
    IF pieces = << >> THEN << >>
    ELSE IF Len(pieces) = 1 THEN pieces[1]
    ELSE pieces[1] \o << " " >> \o join(Tail(pieces))

\* the folder the output of file P goes to in the call on record
OutputDir(P) == IF built.use_source_folder THEN parent(P) ELSE built.base_path

\* the command of row i of the call on record has the shape
\* ffmpeg -i P <the params split on single spaces> -y|-n <last>
CommandShape(i, last) ==
    LET c == built.commands[i].command
        n == Len(c)
    IN /\ n >= 5
       /\ c[1] = ffmpeg /\ c[2] = minus_i /\ c[3] = built.files[i]
       /\ join(SubSeq(c, 4, n - 2)) = built.prm.params
       /\ \A k \in 4..(n - 2) : \A j \in 1..Len(c[k]) : c[k][j] # " "
       /\ c[n - 1] = (IF built.overwrite THEN minus_y ELSE minus_n)
       /\ c[n] = last

\* <output dir>/<stem of P>.<extension>
Computed(P) == OutputDir(P) \o sep \o stem(P) \o << "." >> \o built.prm.extension

\* C14 as stated: for every row with source path P the command built is
\* ffmpeg, -i, P, the params split on single spaces, -y or -n, and
\* <output dir>/<stem of P>.<extension>.
C14_CommandAsStated ==
    \A i \in 1..Len(built.commands) : CommandShape(i, Computed(built.files[i]))

\* C14 amended: the same, except that the last element is
\* <output dir>/CONVERTED!_<stem of P>.<extension> when
\* <output dir>/<stem of P>.<extension> is P itself; one command per row, in
\* row order; no process exists and no row is written when the commands
\* have been built.
C14_CommandBuilt ==
    /\ Len(built.commands) = Len(built.files)
    /\ procs = << >> /\ threads = << >> /\ files_model = << >>
    /\ \A i \in 1..Len(built.commands) :
          LET P == built.files[i] IN
          CommandShape(i, IF Computed(P) = P
                          THEN OutputDir(P) \o sep \o CONVERTED \o stem(P)
                               \o << "." >> \o built.prm.extension
                          ELSE Computed(P))

\* a call on record for two files, one of which would be written onto
\* itself, with params of several pieces
C14_Witness ==
    /\ Len(built.commands) = 2
    /\ Computed(built.files[1]) = built.files[1]
    /\ Computed(built.files[2]) # built.files[2]
    /\ Len(built.commands[1].command) > 6

\* the output file of the command built for row i of the call on record
OutFile(i) == built.commands[i].command[Len(built.commands[i].command)]

\* C15: the output path of every built command differs from its input
\* path: it is <output dir>/CONVERTED!_<stem>.<extension> when the computed
\* path <output dir>/<stem>.<extension> equals the input path, and the
\* computed path otherwise.
C15_OutputIsNotTheInput ==
    \A i \in 1..Len(built.commands) :
        LET P == built.files[i] IN
        /\ OutFile(i) # P
        /\ Computed(P) = P =>
              OutFile(i) = OutputDir(P) \o sep \o CONVERTED \o SubSeq(Computed(P), Len(OutputDir(P)) + 2, Len(Computed(P)))
        /\ Computed(P) # P => OutFile(i) = Computed(P)

\* a call on record whose only file would be written onto itself
C15_Witness ==
    /\ Len(built.commands) = 1
    /\ Computed(built.files[1]) = built.files[1]
    /\ OutFile(1) # built.files[1]

\* runs that follow one another: thread v was started after the cancelled
\* thread w had returned
StartedAfterCancelled(v) ==
    /\ ~user.overlap
    /\ threads[v].kind = "convert"
    /\ \E w \in 1..(v - 1) : threads[w].cancelled /\ threads[w].kind = "convert"

\* a run started after a cancelled run has ended has set the in-progress
\* flag while it is in its loop, and has spawned a process for every row
\* that was selected when it has left the loop
FreshRun(v) ==
    StartedAfterCancelled(v) /\ ~threads[v].cancelled /\ ~threads[v].raised =>
        /\ threads[v].pc \in { "loop", "popen", "store", "watch", "wait", "deselect" }
              => in_progress
        /\ threads[v].pc \in { "finally", "check", "finish" } /\ ~user.edited =>
              \A i \in 1..Len(threads[v].rows0) :
                  threads[v].rows0[i].selected =>
                      \E p \in 1..Len(procs) :
                          procs[p].run = v /\ procs[p].itr = threads[v].rows0[i].id

\* C16: a confirmed cancel makes no worker fail (a worker ends with an
\* error only in a step of its own, a Popen call that raises, never in the
\* step of a cancel), and a run started after a cancelled run has ended
\* sets the in-progress flag again and processes every row that is still
\* selected.
C16_CancelIsRecoverable ==
    [][ /\ \A w \in 1..Len(threads) :
              threads'[w].raised /\ ~threads[w].raised =>
                  threads[w].pc = "popen" /\ user'.cancels = user.cancels
        /\ \A v \in 1..Len(threads') : FreshRun(v)' ]_vars

\* a run started after a cancelled run has gone through its loop and has
\* spawned a process for a row the cancelled run left selected
C16_Witness ==
    \E v \in 1..Len(threads) :
        /\ StartedAfterCancelled(v)
        /\ ~threads[v].cancelled /\ ~threads[v].raised
        /\ threads[v].pc = "finally"
        /\ \E i \in 1..Len(threads[v].rows0) : threads[v].rows0[i].selected
        /\ \E p \in 1..Len(procs) : procs[p].run = v

\* thread v is a conversion run over the list of the runs before it, all of
\* which went through all their jobs (no cancel, no error), with no row
\* edit in between
Requeued(v) ==
    /\ ~user.overlap /\ ~user.edited
    /\ v > 1
    /\ threads[v].kind = "convert" /\ ~threads[v].raised
    /\ \A w \in 1..(v - 1) :
          /\ threads[w].kind = "convert"
          /\ ~threads[w].cancelled /\ ~threads[w].raised
          /\ threads[w].size = threads[v].size

\* the step is one of worker v, or runs an idle callback that v queued
StepOf(v) ==
    \/ threads'[v].pc # threads[v].pc
    \/ idle # << >> /\ idle' = Tail(idle) /\ Head(idle).run = v

\* C17: a run started after a run that completed all its selected jobs,
\* with no selection changed, spawns no process and changes no row's
\* progress or selected flag.
C17_RequeueIsANoOp ==
    [][ \A v \in 1..Len(threads) :
            Requeued(v) /\ StepOf(v) =>
                /\ procs' = procs
                /\ \A p \in 1..Len(procs) : procs[p].run # v
                /\ Len(files_model') = Len(files_model)
                /\ \A i \in 1..Len(files_model) :
                      /\ files_model'[i].progress = files_model[i].progress
                      /\ files_model'[i].selected = files_model[i].selected ]_vars

\* the second of two runs over the same rows has got to its end and its
\* callbacks have run
C17_Witness ==
    \E v \in 1..Len(threads) :
        /\ Requeued(v)
        /\ threads[v].size > 0
        /\ threads[v].pc = "done" /\ threads[v].done_msg
        /\ idle = << >>

\* the only run so far is a conversion that was not cancelled, in which no
\* Popen call raised and during which no row was edited, and it is over:
\* the worker has returned and nothing is left to read or to dispatch
OnlyRunIsOver ==
    /\ Len(threads) = 1
    /\ threads[1].kind = "convert" /\ threads[1].pc = "done"
    /\ ~threads[1].cancelled /\ ~threads[1].raised /\ ~user.edited
    /\ idle = << >> /\ Readable = {}

\* C18: the outcome of a run does not depend on the exit status of its
\* processes: whatever the statuses were, every command of the run got its
\* process (the jobs after a failed one included), every row of a job is
\* deselected with progress 100, and the run ended with "Done!".
C18_ExitStatusIsIgnored ==
    OnlyRunIsOver =>
        /\ \A i \in 1..threads[1].size :
              \E p \in 1..Len(procs) : procs[p].run = 1 /\ procs[p].idx = i
        /\ \A p \in 1..Len(procs) :
              procs[p].itr \in RowIds(files_model) =>
                  /\ ~Row(files_model, procs[p].itr).selected
                  /\ Row(files_model, procs[p].itr).progress = 100
        /\ threads[1].done_msg

\* a run of two jobs is over, the first process ended with a status other
\* than 0 and the second with 0
C18_Witness ==
    /\ OnlyRunIsOver
    /\ Len(procs) = 2
    /\ procs[1].returncode # 0
    /\ procs[2].returncode = 0

\* C19: within one run, a line of the stderr of process p that sets the
\* duration or a row's progress is read while the active row is the row
\* of p's job: a line an ended job left unread changes neither the
\* progress of a later job's row nor the duration used for it.
C19_LinesGoToTheirOwnRow ==
    [][ \A p \in 1..Len(procs) :
            /\ Len(threads) = 1
            /\ ReadStep(p)
            /\ TheLine(p).m
            /\ TheLine(p).g1 \/ duration # FloatZero
            => current_itr = procs[p].itr ]_vars

\* a conversion run is in progress: a worker of convert() has not returned
Converting == \E w \in Running : threads[w].kind = "convert"

\* C20: while a conversion run is in progress no row is removed from the
\* list, and the row a worker finds at the index of a command is the row
\* that was at that index when the commands were built.
C20_NoRemovalWhileConverting ==
    [][ /\ Converting => RowIds(files_model) \subseteq RowIds(files_model')
        /\ \A w \in 1..Len(threads) :
              threads[w].pc = "loop" /\ threads'[w].pc = "popen" =>
                  threads'[w].itr = threads[w].rows0[threads[w].commands[threads[w].k]].id ]_vars

\* the rows whose "currently converting" flag (Column.IN_PROGRESS) is set
Flagged == { i \in 1..Len(files_model) : files_model[i].in_progress }

\* C21: in every state at most one row has its IN_PROGRESS flag set, that
\* row is the row of a process that is alive (or of the job a worker has
\* not left yet), and no row has the flag set when no run is in progress
\* (no worker running, no callback pending).
C21_OneRowIsConverting ==
    /\ Cardinality(Flagged) <= 1
    /\ \A i \in Flagged :
          \/ \E p \in Alive : procs[p].itr = files_model[i].id
          \/ \E w \in Running : threads[w].itr = files_model[i].id
    /\ Running = {} /\ idle = << >> => Flagged = {}

\* C22: a run on its own (no other run was started, and no cancel was
\* confirmed before its worker had set the in-progress flag) that has
\* returned and whose callbacks have run has shown exactly one terminal
\* message: 'Done!' if and only if no cancel was confirmed during the run,
\* 'Task canceled.' if and only if one was, and never both.
C22_OneTerminalMessage ==
    /\ Len(threads) = 1 /\ threads[1].pc = "done" /\ idle = << >>
    /\ threads[1].cancelled => threads[1].cancel_at # -1
    =>
        /\ threads[1].done_msg <=> ~threads[1].cancelled
        /\ threads[1].cancel_msg <=> threads[1].cancelled
        /\ ~(threads[1].done_msg /\ threads[1].cancel_msg)
\* the keys of the dict d are pairwise different
unique(d) == \A i, j \in 1..Len(d) : d[i].key = d[j].key => i = j

\* every entry of the dict d other than the one of key k is an entry of e,
\* with the value it had
Kept(d, e, k) ==
    \A i \in 1..Len(d) :
        d[i].key # k => contains(e, d[i].key) /\ getitem(e, d[i].key) = d[i].value

\* every category is still there, and so is each of its profiles as it
\* was, but for profile k of the active category
ProfilesKept(k) ==
    \A i \in 1..Len(presets) :
        /\ contains(presets', presets[i].key)
        /\ Kept(presets[i].value, getitem(presets', presets[i].key),
                IF presets[i].key = get_active_text(widgets.category_combo_box)
                THEN k ELSE NoText)

\* C23: category names are unique in the catalog and profile names are
\* unique within their category after every step; an add of a name that
\* exists queues the 'already exists' error and leaves the catalog as it
\* was; and an add or a rename keeps every other category and every other
\* profile as it was (only the entry that is edited may change).
C23_UniqueNamesNothingLost ==
    [][ /\ unique(presets')
        /\ \A i \in 1..Len(presets') : unique(presets'[i].value)
        /\ \A text \in CategoryTexts \cup ProfileNames, params \in ProfileParams :
              on_options_add(text, params) =>
                 IF widgets.category_name_entry
                 THEN /\ contains(presets, text) =>
                           /\ presets' = presets
                           /\ idle' = Append(idle, IdleMessage("Category with this name already exists!", 0))
                      /\ Kept(presets, presets', NoText)
                 ELSE /\ \A i \in 1..Len(presets) :
                           /\ presets[i].key = get_active_text(widgets.category_combo_box)
                           /\ contains(presets[i].value, text)
                           => /\ presets' = presets
                              /\ idle' = Append(idle, IdleMessage("Profile with this name already exists!", 0))
                      /\ ProfilesKept(NoText)
        /\ \A text \in CategoryTexts \cup ProfileNames, params \in ProfileParams :
              on_options_apply(text, params) =>
                 IF widgets.category_name_entry
                 THEN Kept(presets, presets', get_active_text(widgets.category_combo_box))
                 ELSE ProfilesKept(get_active_text(widgets.profile_combo_box))
      ]_vars

====
